---- MODULE Spec2Model ----
(***************************************************************************)
(* Lead qualification server (src/lead_qualification_server.py).           *)
(*                                                                         *)
(* score_lead is modelled section by section, each section of the Python   *)
(* function being an operator on the function's frame of local variables.  *)
(* Three specifications use it:                                              *)
(*   Spec      - one whole call of score_lead per step, over every contact *)
(*               record of the bounded input domain;                       *)
(*   SpecCalls - several invocations of score_lead in flight at once, each *)
(*               advancing one section at a time in its own frame;         *)
(*   SpecTools - one request to call_tool, or one run of test mode, over   *)
(*               the contents of the S3 bucket.                            *)
(*                                                                         *)
(* Strings: the marks U+2713, U+2717 and U+2022 that the code puts in      *)
(* front of its messages are written "+", "x" and "*".  score_pct is kept  *)
(* in tenths of a percent (70.0 is 700), since round(_, 1) yields one      *)
(* decimal digit.                                                          *)
(***************************************************************************)
EXTENDS Integers, Sequences, FiniteSets, TLC

VARIABLES contact, result, frames, pc, returned, ncalls,
          s3, request, handler, response

\* the variables of the tool handlers and of the bucket they read
toolvars == <<s3, request, handler, response>>

vars == <<contact, result, frames, pc, returned, ncalls, toolvars>>

-----------------------------------------------------------------------------
(* Module-level configuration *)

SCORING ==
    [company_type |-> 35, has_auto_lending |-> 35, company_size |-> 10,
     title |-> 10, source |-> 5, state |-> 5]

ICP_CONFIG ==
    [name |-> "EnFi Primary ICP",
     required |-> [company_type |-> {"Credit Union"},
                   country |-> {"United States"},
                   has_auto_lending |-> TRUE],
     preferred |-> [company_size |-> {"201-1000", "1000+"},
                    titles |-> {"CFO", "VP of Finance", "COO", "CEO",
                                "Chief Lending Officer", "VP of Lending",
                                "SVP of Lending"},
                    sources |-> {"Referral", "Inbound Demo Request", "Conference"},
                    states |-> {}]]

\* Python's None, as returned by contact.get(key) for an absent key.
None == "None"

\* sum(SCORING.values())
RECURSIVE SumValues(_, _)
SumValues(f, keys) ==
    IF keys = {} THEN 0
    ELSE LET k == CHOOSE k \in keys : TRUE
         IN f[k] + SumValues(f, keys \ {k})

\* dict.get(key, default): a contact is a function whose domain is the set
\* of columns present in the record.
Get(c, key, default) == IF key \in DOMAIN c THEN c[key] ELSE default

\* round(x, 1) for x = num / den >= 0, in tenths, ties to even.
Round1(num, den) ==
    LET q == (num * 10) \div den
        r == (num * 10) % den
    IN IF 2 * r > den THEN q + 1
       ELSE IF 2 * r < den THEN q
       ELSE IF q % 2 = 0 THEN q ELSE q + 1

-----------------------------------------------------------------------------
(* score_lead, section by section.  A frame holds the locals of one call. *)

NoValue == "?"

\* lines 77-81: the locals a call starts with
NewFrame(c) ==
    [contact |-> c, score |-> 0, max_score |-> SumValues(SCORING, DOMAIN SCORING),
     reasons |-> <<>>, gaps |-> <<>>, disqualified |-> FALSE,
     company_type |-> NoValue, title |-> NoValue, source |-> NoValue,
     state |-> NoValue, score_pct |-> 0, tier |-> NoValue, priority |-> NoValue]

\* CompanyType with the gap message left out of the failing branch
CompanyType_NoGap(f) ==
    LET company_type == Get(f.contact, "Company_Type", "")
    IN IF company_type \in ICP_CONFIG.required.company_type
       THEN [f EXCEPT !.company_type = company_type,
                      !.score = @ + SCORING.company_type,
                      !.reasons = Append(@, "+ Perfect fit: " \o company_type)]
       ELSE [f EXCEPT !.company_type = company_type,
                      !.disqualified = TRUE]

\* lines 83-90
CompanyType(f) ==
    LET company_type == Get(f.contact, "Company_Type", "")
    IN IF company_type \in ICP_CONFIG.required.company_type
       THEN [f EXCEPT !.company_type = company_type,
                      !.score = @ + SCORING.company_type,
                      !.reasons = Append(@, "+ Perfect fit: " \o company_type)]
       ELSE [f EXCEPT !.company_type = company_type,
                      !.gaps = Append(@, "x NOT A CREDIT UNION: " \o company_type),
                      !.disqualified = TRUE]

\* AutoLending with `disqualified = True` left out of the failing branch
AutoLending_NoDisqualify(f) ==
    LET has_auto == (Get(f.contact, "Has_Auto_Lending", "No") = "Yes")
    IN IF has_auto
       THEN [f EXCEPT !.score = @ + SCORING.has_auto_lending,
                      !.reasons = Append(@, "+ Has indirect auto lending")]
       ELSE [f EXCEPT !.gaps = Append(@, "x NO AUTO LENDING BUSINESS")]

\* AutoLending with 'Yes' as the default of an absent Has_Auto_Lending
AutoLending_DefaultYes(f) ==
    LET has_auto == (Get(f.contact, "Has_Auto_Lending", "Yes") = "Yes")
    IN IF has_auto
       THEN [f EXCEPT !.score = @ + SCORING.has_auto_lending,
                      !.reasons = Append(@, "+ Has indirect auto lending")]
       ELSE [f EXCEPT !.gaps = Append(@, "x NO AUTO LENDING BUSINESS"),
                      !.disqualified = TRUE]

\* lines 92-99
AutoLending(f) ==
    LET has_auto == (Get(f.contact, "Has_Auto_Lending", "No") = "Yes")
    IN IF has_auto
       THEN [f EXCEPT !.score = @ + SCORING.has_auto_lending,
                      !.reasons = Append(@, "+ Has indirect auto lending")]
       ELSE [f EXCEPT !.gaps = Append(@, "x NO AUTO LENDING BUSINESS"),
                      !.disqualified = TRUE]

\* CompanySize treating a size outside the preferred list as a gap
CompanySize_Disqualifies(f) ==
    LET company_size == Get(f.contact, "Company_Size", "")
    IN IF company_size \in ICP_CONFIG.preferred.company_size
       THEN [f EXCEPT !.score = @ + SCORING.company_size,
                      !.reasons = Append(@, "+ Good size: " \o company_size \o " employees")]
       ELSE [f EXCEPT !.gaps = Append(@, "* Size: " \o company_size \o " employees"),
                      !.disqualified = TRUE]

\* lines 101-107
CompanySize(f) ==
    LET company_size == Get(f.contact, "Company_Size", "")
    IN IF company_size \in ICP_CONFIG.preferred.company_size
       THEN [f EXCEPT !.score = @ + SCORING.company_size,
                      !.reasons = Append(@, "+ Good size: " \o company_size \o " employees")]
       ELSE [f EXCEPT !.reasons = Append(@, "* Size: " \o company_size \o " employees")]

\* Title with the weight not added for a preferred title
Title_NoWeight(f) ==
    LET title == Get(f.contact, "Job_Title", "")
    IN IF title \in ICP_CONFIG.preferred.titles
       THEN [f EXCEPT !.title = title,
                      !.reasons = Append(@, "+ Decision maker: " \o title)]
       ELSE [f EXCEPT !.title = title,
                      !.reasons = Append(@, "* Title: " \o title)]

\* lines 109-115
Title(f) ==
    LET title == Get(f.contact, "Job_Title", "")
    IN IF title \in ICP_CONFIG.preferred.titles
       THEN [f EXCEPT !.title = title,
                      !.score = @ + SCORING.title,
                      !.reasons = Append(@, "+ Decision maker: " \o title)]
       ELSE [f EXCEPT !.title = title,
                      !.reasons = Append(@, "* Title: " \o title)]

\* Source adding the company_size weight instead of its own
Source_WrongWeight(f) ==
    LET source == Get(f.contact, "Source", "")
    IN IF source \in ICP_CONFIG.preferred.sources
       THEN [f EXCEPT !.source = source,
                      !.score = @ + SCORING.company_size,
                      !.reasons = Append(@, "+ High-intent: " \o source)]
       ELSE [f EXCEPT !.source = source,
                      !.reasons = Append(@, "* Source: " \o source)]

\* lines 117-123
Source(f) ==
    LET source == Get(f.contact, "Source", "")
    IN IF source \in ICP_CONFIG.preferred.sources
       THEN [f EXCEPT !.source = source,
                      !.score = @ + SCORING.source,
                      !.reasons = Append(@, "+ High-intent: " \o source)]
       ELSE [f EXCEPT !.source = source,
                      !.reasons = Append(@, "* Source: " \o source)]

\* Geography without `not priority_states or`
Geography_Strict(f) ==
    LET state == Get(f.contact, "State", "")
        priority_states == ICP_CONFIG.preferred.states
    IN IF state \in priority_states
       THEN [f EXCEPT !.state = state,
                      !.score = @ + SCORING.state,
                      !.reasons = Append(@, "+ Location: " \o state)]
       ELSE [f EXCEPT !.state = state]

\* lines 125-130
Geography(f) ==
    LET state == Get(f.contact, "State", "")
        priority_states == ICP_CONFIG.preferred.states
    IN IF priority_states = {} \/ state \in priority_states
       THEN [f EXCEPT !.state = state,
                      !.score = @ + SCORING.state,
                      !.reasons = Append(@, "+ Location: " \o state)]
       ELSE [f EXCEPT !.state = state]

\* Tier with strict comparisons
Tier_Exclusive(score_pct) ==
    IF score_pct > 900 THEN [tier |-> "A - Excellent", priority |-> "fire"]
    ELSE IF score_pct > 800 THEN [tier |-> "B - Strong", priority |-> "check"]
    ELSE IF score_pct > 700 THEN [tier |-> "C - Qualified", priority |-> "warning"]
    ELSE [tier |-> "D - Weak", priority |-> "thinking"]

\* the tier of a percentage in tenths, lines 139-150
Tier(score_pct) ==
    IF score_pct >= 900 THEN [tier |-> "A - Excellent", priority |-> "fire"]
    ELSE IF score_pct >= 800 THEN [tier |-> "B - Strong", priority |-> "check"]
    ELSE IF score_pct >= 700 THEN [tier |-> "C - Qualified", priority |-> "warning"]
    ELSE [tier |-> "D - Weak", priority |-> "thinking"]

\* CalculateFinalScore resetting score as well for a disqualified lead
CalculateFinalScore_ZeroScore(f) ==
    IF f.disqualified
    THEN [f EXCEPT !.score = 0, !.score_pct = 0, !.tier = "DISQUALIFIED",
                   !.priority = "cross"]
    ELSE LET score_pct == Round1(f.score * 100, f.max_score)
         IN [f EXCEPT !.score_pct = score_pct, !.tier = Tier(score_pct).tier,
                      !.priority = Tier(score_pct).priority]

\* lines 132-150
CalculateFinalScore(f) ==
    IF f.disqualified
    THEN [f EXCEPT !.score_pct = 0, !.tier = "DISQUALIFIED", !.priority = "cross"]
    ELSE LET score_pct == Round1(f.score * 100, f.max_score)
         IN [f EXCEPT !.score_pct = score_pct, !.tier = Tier(score_pct).tier,
                      !.priority = Tier(score_pct).priority]

\* lines 152-170: the dict that is returned
ReturnValue(f) ==
    [contact_id |-> Get(f.contact, "Contact_ID", None),
     name |-> Get(f.contact, "Person_Name", None),
     company |-> Get(f.contact, "Company_Name", None),
     company_type |-> f.company_type,
     title |-> f.title,
     email |-> Get(f.contact, "Email", None),
     phone |-> Get(f.contact, "Phone", None),
     state |-> f.state,
     source |-> f.source,
     created |-> Get(f.contact, "Created_Date", None),
     score |-> f.score,
     score_pct |-> f.score_pct,
     tier |-> f.tier,
     priority |-> f.priority,
     reasons |-> f.reasons,
     gaps |-> f.gaps,
     disqualified |-> f.disqualified]

\* Locals with the title section run before the two required sections
Locals_Reordered(c) ==
    CalculateFinalScore(Geography(Source(CompanySize(
        AutoLending(CompanyType(Title(NewFrame(c))))))))

\* the locals of a call of score_lead when it reaches its return statement
Locals(c) ==
    CalculateFinalScore(Geography(Source(Title(CompanySize(
        AutoLending(CompanyType(NewFrame(c))))))))

score_lead(c) == ReturnValue(Locals(c))

-----------------------------------------------------------------------------
(* Input domain: contact records as csv.DictReader rows, any column absent *)

Absent == "<absent>"

ScoredColumns ==
    {"Company_Type", "Has_Auto_Lending", "Country", "Company_Size",
     "Job_Title", "Source", "State"}

PassThroughColumns ==
    {"Contact_ID", "Person_Name", "Company_Name", "Email", "Phone", "Created_Date"}

Columns == ScoredColumns \cup PassThroughColumns

\* the scored columns of the rows of the input domain; Absent marks a column
\* the row does not have
RowSet ==
    [Company_Type : {"Credit Union", "Community Bank", "", Absent},
     Has_Auto_Lending : {"Yes", "No", "", Absent},
     Country : {"United States", "Canada", Absent},
     Company_Size : {"51-200", "201-1000", "1000+", Absent},
     Job_Title : {"CFO", "Controller", Absent},
     Source : {"Referral", "Cold Outreach", Absent},
     State : {"CA", Absent}]

\* the display columns, which score_lead copies: their value when present
PassThroughValue ==
    [Contact_ID |-> "CONT10000", Person_Name |-> "Pat Lee",
     Company_Name |-> "Summit FCU", Email |-> "pat.lee@summitfcu.example",
     Phone |-> "555-0100", Created_Date |-> "2024-01-15"]

\* which display columns a row has: all, none, or all but one
PassThroughPresent ==
    {PassThroughColumns, {}} \cup {PassThroughColumns \ {k} : k \in PassThroughColumns}

\* a contact is the function from the columns that are present to their values
Row(r, present) ==
    [k \in {k \in ScoredColumns : r[k] # Absent} \cup present |->
        IF k \in ScoredColumns THEN r[k] ELSE PassThroughValue[k]]

Contacts == {Row(r, present) : r \in RowSet, present \in PassThroughPresent}

NoResult == [tier |-> "none"]

\* no bucket, no request and no handler: the tools are not in use
NoBucket == [fault |-> [at |-> "none", message |-> ""], Contents |-> <<>>]
NoRequest == [name |-> "none"]
NoHandler == [name |-> "none"]

-----------------------------------------------------------------------------
(* Spec: whole calls of score_lead, one per contact of the input domain *)

\* the caller holds a contact that has not been scored yet
Init ==
    /\ contact \in Contacts
    /\ result = NoResult
    /\ frames = <<>>
    /\ pc = <<>>
    /\ returned = <<>>
    /\ ncalls = 0
    /\ s3 = NoBucket /\ request = NoRequest
    /\ handler = NoHandler /\ response = <<>>

\* result = score_lead(contact); frames keeps the locals the call ended with
ScoreLead ==
    /\ result = NoResult
    /\ result' = score_lead(contact)
    /\ frames' = <<Locals(contact)>>
    /\ pc' = <<"done">>
    /\ UNCHANGED <<contact, returned, ncalls, toolvars>>

Next == ScoreLead

Spec == Init /\ [][Next]_vars

-----------------------------------------------------------------------------
(* SpecCalls: invocations of score_lead by two callers, interleaved section *)
(* by section.  frames[i] holds the locals of caller i's current or last    *)
(* call, pc[i] the section it is about to run, returned[i] the dict its     *)
(* last completed call returned.                                            *)

\* calls started in one behaviour
MaxCalls == 3

Callers == {1, 2}

\* the contacts the callers pass
CallContacts ==
    {Row(r, PassThroughColumns) :
        r \in [Company_Type : {"Credit Union", "Community Bank"},
               Has_Auto_Lending : {"Yes"},
               Country : {"United States"},
               Company_Size : {"1000+", Absent},
               Job_Title : {"CFO"},
               Source : {"Referral"},
               State : {"CA"}]}

InitCalls ==
    /\ contact = <<>>
    /\ result = NoResult
    /\ frames = [i \in Callers |-> NewFrame(<<>>)]
    /\ pc = [i \in Callers |-> "idle"]
    /\ returned = [i \in Callers |-> NoResult]
    /\ ncalls = 0
    /\ s3 = NoBucket /\ request = NoRequest
    /\ handler = NoHandler /\ response = <<>>

\* Call with the score of the caller's previous call carried over, as when
\* score is initialised once instead of at every call
Call_KeepScore(i, c) ==
    /\ pc[i] \in {"idle", "done"}
    /\ ncalls < MaxCalls
    /\ ncalls' = ncalls + 1
    /\ frames' = [frames EXCEPT ![i] = [NewFrame(c) EXCEPT !.score = frames[i].score]]
    /\ pc' = [pc EXCEPT ![i] = "company_type"]
    /\ returned' = [returned EXCEPT ![i] = NoResult]
    /\ UNCHANGED <<contact, result, toolvars>>

\* caller i enters score_lead(c): lines 74-81
Call(i, c) ==
    /\ pc[i] \in {"idle", "done"}
    /\ ncalls < MaxCalls
    /\ ncalls' = ncalls + 1
    /\ frames' = [frames EXCEPT ![i] = NewFrame(c)]
    /\ pc' = [pc EXCEPT ![i] = "company_type"]
    /\ returned' = [returned EXCEPT ![i] = NoResult]
    /\ UNCHANGED <<contact, result, toolvars>>

\* caller i runs the section at `at` and moves on to the section `to`
Section(i, at, f, to) ==
    /\ pc[i] = at
    /\ frames' = [frames EXCEPT ![i] = f]
    /\ pc' = [pc EXCEPT ![i] = to]
    /\ UNCHANGED <<contact, result, returned, ncalls, toolvars>>

RunCompanyType(i) == Section(i, "company_type", CompanyType(frames[i]), "auto_lending")
RunAutoLending(i) == Section(i, "auto_lending", AutoLending(frames[i]), "company_size")
RunCompanySize(i) == Section(i, "company_size", CompanySize(frames[i]), "title")
RunTitle(i) == Section(i, "title", Title(frames[i]), "source")
RunSource(i) == Section(i, "source", Source(frames[i]), "geography")
RunGeography(i) == Section(i, "geography", Geography(frames[i]), "final")
RunCalculateFinalScore(i) == Section(i, "final", CalculateFinalScore(frames[i]), "return")

\* lines 152-170: caller i receives the dict
Return(i) ==
    /\ pc[i] = "return"
    /\ returned' = [returned EXCEPT ![i] = ReturnValue(frames[i])]
    /\ pc' = [pc EXCEPT ![i] = "done"]
    /\ UNCHANGED <<contact, result, frames, ncalls, toolvars>>

NextCalls ==
    \E i \in Callers :
        \/ \E c \in CallContacts : Call(i, c)
        \/ RunCompanyType(i)
        \/ RunAutoLending(i)
        \/ RunCompanySize(i)
        \/ RunTitle(i)
        \/ RunSource(i)
        \/ RunGeography(i)
        \/ RunCalculateFinalScore(i)
        \/ Return(i)

SpecCalls == InitCalls /\ [][NextCalls]_vars

-----------------------------------------------------------------------------
(* The S3 bucket and read_contacts_from_s3 *)

\* an optional value: Nothing is Python's None where the other side is a
\* list, Just(x) is the value x
Nothing == {}
Just(x) == {x}
The(o) == CHOOSE x \in o : TRUE

\* `if x:` for an optional string
Truthy(o) == o # Nothing /\ The(o) # ""

\* Insert taking the new entry in front of the entries with an equal key
RECURSIVE Insert_BeforeEqual(_, _)
Insert_BeforeEqual(sorted, x) ==
    IF sorted = <<>> THEN <<x>>
    ELSE IF Head(sorted).key > x.key
         THEN <<Head(sorted)>> \o Insert_BeforeEqual(Tail(sorted), x)
         ELSE <<x>> \o sorted

\* list.sort(key=..., reverse=True) is stable: an entry goes behind every
\* entry whose key is greater than or equal to its own
RECURSIVE Insert(_, _)
Insert(sorted, x) ==
    IF sorted = <<>> THEN <<x>>
    ELSE IF Head(sorted).key >= x.key
         THEN <<Head(sorted)>> \o Insert(Tail(sorted), x)
         ELSE <<x>> \o sorted

RECURSIVE SortDecorated(_)
SortDecorated(d) ==
    IF d = <<>> THEN <<>>
    ELSE Insert(SortDecorated(SubSeq(d, 1, Len(d) - 1)), d[Len(d)])

\* s sorted by keys[i], the key of s[i], in descending order
sort_reverse(s, keys) ==
    LET d == [i \in 1..Len(s) |-> [key |-> keys[i], item |-> s[i]]]
        r == SortDecorated(d)
    IN [i \in 1..Len(s) |-> r[i].item]

\* read_contacts_from_s3 returning an empty list when the prefix is empty
read_contacts_from_s3_EmptyList(b) ==
    IF b.fault.at = "list_objects_v2"
    THEN [contacts |-> Nothing,
          error |-> Just("Error reading contacts: " \o b.fault.message)]
    ELSE IF b.Contents = <<>>
    THEN [contacts |-> Just(<<>>), error |-> Nothing]
    ELSE LET files == sort_reverse(b.Contents,
                          [i \in 1..Len(b.Contents) |-> b.Contents[i].LastModified])
             latest == files[1]
         IN IF b.fault.at = "get_object"
            THEN [contacts |-> Nothing,
                  error |-> Just("Error reading contacts: " \o b.fault.message)]
            ELSE [contacts |-> Just(latest.Body), error |-> Nothing]

\* lines 54-72
read_contacts_from_s3(b) ==
    IF b.fault.at = "list_objects_v2"
    THEN [contacts |-> Nothing,
          error |-> Just("Error reading contacts: " \o b.fault.message)]
    ELSE IF b.Contents = <<>>
    THEN [contacts |-> Nothing, error |-> Just("No contact data found in S3")]
    ELSE LET files == sort_reverse(b.Contents,
                          [i \in 1..Len(b.Contents) |-> b.Contents[i].LastModified])
             latest == files[1]
         IN IF b.fault.at = "get_object"
            THEN [contacts |-> Nothing,
                  error |-> Just("Error reading contacts: " \o b.fault.message)]
            ELSE [contacts |-> Just(latest.Body), error |-> Nothing]

-----------------------------------------------------------------------------
(* call_tool and test mode *)

\* s[:n] of a Python list
Slice(s, n) ==
    IF n >= 0 THEN SubSeq(s, 1, IF n < Len(s) THEN n ELSE Len(s))
    ELSE SubSeq(s, 1, IF Len(s) + n > 0 THEN Len(s) + n ELSE 0)

\* int(x) truncates towards zero; a JSON number x is held in halves
int(halves) == IF halves >= 0 THEN halves \div 2 ELSE -((-halves) \div 2)

\* [score_lead(c) for c in contacts]
ScoreEach(contacts) == [i \in 1..Len(contacts) |-> score_lead(contacts[i])]

\* NotDisqualified keeping the disqualified leads instead
NotDisqualified_Inverted(scored) == SelectSeq(scored, LAMBDA x : x.disqualified)

\* [s for s in scored if not s['disqualified']]
NotDisqualified(scored) == SelectSeq(scored, LAMBDA x : ~x.disqualified)

\* scored.sort(key=lambda x: x['score_pct'], reverse=True)
SortByScorePct(scored) ==
    sort_reverse(scored, [i \in 1..Len(scored) |-> scored[i].score_pct])

TextContent(text) == [type |-> "text", text |-> text]

\* what a handler holds when read_contacts_from_s3 gave an error
Failed(name, rd) ==
    [name |-> name, contacts |-> rd.contacts, error |-> rd.error,
     selected |-> <<>>, scored |-> <<>>, score_lead_calls |-> 0]

\* lines 219-243; the text is kept as the fields it is formatted from
score_all_leads(b, arguments) ==
    LET rd == read_contacts_from_s3(b)
    IN IF Truthy(rd.error)
       THEN [locals |-> Failed("score_all_leads", rd),
             response |-> <<TextContent([kind |-> "error",
                                          text |-> "X " \o The(rd.error)])>>]
       ELSE LET contacts == The(rd.contacts)
                all == ScoreEach(contacts)
                selected == IF Get(arguments, "qualified_only", TRUE)
                            THEN NotDisqualified(all) ELSE all
                scored == SortByScorePct(selected)
            IN [locals |-> [name |-> "score_all_leads", contacts |-> rd.contacts,
                            error |-> rd.error, selected |-> selected,
                            scored |-> scored,
                            score_lead_calls |-> Len(contacts)],
                response |-> <<TextContent([kind |-> "results",
                                             total_analyzed |-> Len(contacts),
                                             qualified |-> Len(scored),
                                             leads |-> Slice(scored, 20)])>>]

\* get_priority_list with scored[count:] listed
get_priority_list_Tail(b, arguments) ==
    LET rd == read_contacts_from_s3(b)
    IN IF Truthy(rd.error)
       THEN [locals |-> Failed("get_priority_list", rd),
             response |-> <<TextContent([kind |-> "error",
                                          text |-> "X " \o The(rd.error)])>>]
       ELSE LET contacts == The(rd.contacts)
                selected == NotDisqualified(ScoreEach(contacts))
                scored == SortByScorePct(selected)
                count == int(Get(arguments, "count", 20))
                top == SubSeq(scored, Len(Slice(scored, count)) + 1, Len(scored))
            IN [locals |-> [name |-> "get_priority_list", contacts |-> rd.contacts,
                            error |-> rd.error, selected |-> selected,
                            scored |-> scored,
                            score_lead_calls |-> Len(contacts) + Len(selected)],
                response |-> <<TextContent([kind |-> "priority", count |-> count,
                                             leads |-> top])>>]

\* lines 245-262; line 250 calls score_lead once for every contact in the
\* condition and once more for every contact that passes it; count is held
\* in halves, its default 10 being 20 halves
get_priority_list(b, arguments) ==
    LET rd == read_contacts_from_s3(b)
    IN IF Truthy(rd.error)
       THEN [locals |-> Failed("get_priority_list", rd),
             response |-> <<TextContent([kind |-> "error",
                                          text |-> "X " \o The(rd.error)])>>]
       ELSE LET contacts == The(rd.contacts)
                selected == NotDisqualified(ScoreEach(contacts))
                scored == SortByScorePct(selected)
                count == int(Get(arguments, "count", 20))
                top == Slice(scored, count)
            IN [locals |-> [name |-> "get_priority_list", contacts |-> rd.contacts,
                            error |-> rd.error, selected |-> selected,
                            scored |-> scored,
                            score_lead_calls |-> Len(contacts) + Len(selected)],
                response |-> <<TextContent([kind |-> "priority", count |-> count,
                                             leads |-> top])>>]

\* lines 284-306: test mode prints instead of returning
main(b) ==
    LET rd == read_contacts_from_s3(b)
    IN IF Truthy(rd.error)
       THEN [locals |-> Failed("test", rd),
             response |-> <<[type |-> "stdout",
                             text |-> [kind |-> "error",
                                       text |-> "X " \o The(rd.error)]]>>]
       ELSE LET contacts == The(rd.contacts)
                scored == ScoreEach(contacts)
                qualified == NotDisqualified(scored)
                ranked == SortByScorePct(qualified)
            IN [locals |-> [name |-> "test", contacts |-> rd.contacts,
                            error |-> rd.error, selected |-> qualified,
                            scored |-> ranked,
                            score_lead_calls |-> Len(contacts)],
                response |-> <<[type |-> "stdout",
                                text |-> [kind |-> "test",
                                          loaded |-> Len(contacts),
                                          qualified |-> Len(ranked),
                                          leads |-> Slice(ranked, 5)]]>>]

-----------------------------------------------------------------------------
(* SpecTools: one request against a bucket *)

\* rows stored in the bucket, over all its files
MaxContacts == 3

\* the keys under the prefix crm-data/contacts_, in listing order
FileKeys == <<"crm-data/contacts_20240115.csv", "crm-data/contacts_20240116.csv">>

Timestamps == {1, 2}

\* a full row of the contacts file
ToolContact(id, company_type, size, title, source) ==
    [Contact_ID |-> id, Person_Name |-> "Pat Lee", Email |-> "pat.lee@summitfcu.example",
     Phone |-> "555-0100", Job_Title |-> title, Company_Name |-> "Summit FCU",
     Company_Type |-> company_type, Company_Size |-> size,
     Has_Auto_Lending |-> "Yes", Country |-> "United States", State |-> "CA",
     Source |-> source, Created_Date |-> "2024-01-15"]

\* one lead at 100.0, two different leads at 75.0 and one disqualified
ToolContacts ==
    {ToolContact("CONT10000", "Credit Union", "1000+", "CFO", "Referral"),
     ToolContact("CONT10001", "Credit Union", "51-200", "Controller", "Cold Outreach"),
     ToolContact("CONT10002", "Credit Union", "51-200", "Controller", "Cold Outreach"),
     ToolContact("CONT10003", "Community Bank", "1000+", "CFO", "Referral")}

RECURSIVE Sum(_)
Sum(sizes) == IF sizes = <<>> THEN 0 ELSE Head(sizes) + Sum(Tail(sizes))

\* the listing of the first Len(sizes) keys, file i holding sizes[i] of the
\* rows and modified at stamps[i]
Listing(rows, sizes, stamps) ==
    [i \in 1..Len(sizes) |->
        [Key |-> FileKeys[i],
         LastModified |-> stamps[i],
         Body |-> SubSeq(rows, Sum(SubSeq(sizes, 1, i - 1)) + 1,
                         Sum(SubSeq(sizes, 1, i)))]]

\* what boto3 does: nothing wrong, list_objects_v2 raises, or reading the
\* latest object raises
Faults ==
    {[at |-> "none", message |-> ""],
     [at |-> "list_objects_v2", message |-> ""],
     [at |-> "get_object", message |-> "AccessDenied"]}

\* the arguments of the tools; count is a JSON number, held in halves
QualifiedOnlyArgs == {<<>>, [qualified_only |-> TRUE], [qualified_only |-> FALSE]}
CountArgs == {<<>>} \cup {[count |-> h] : h \in {-2, 0, 2, 3, 4, 2 * MaxContacts + 4}}

InitTools ==
    /\ contact = <<>>
    /\ result = NoResult
    /\ frames = <<>>
    /\ pc = <<>>
    /\ returned = <<>>
    /\ ncalls = 0
    /\ \E n \in 0..MaxContacts, m \in 0..Len(FileKeys), fault \in Faults :
          \E rows \in [1..n -> ToolContacts],
             sizes \in {z \in [1..m -> 0..n] : Sum(z) = n},
             stamps \in [1..m -> Timestamps] :
              s3 = [fault |-> fault, Contents |-> Listing(rows, sizes, stamps)]
    /\ request = NoRequest
    /\ handler = NoHandler
    /\ response = <<>>

\* the request is handled to its end
Handle(name, arguments, h) ==
    /\ request = NoRequest
    /\ request' = [name |-> name, arguments |-> arguments]
    /\ handler' = h.locals
    /\ response' = h.response
    /\ UNCHANGED <<contact, result, frames, pc, returned, ncalls, s3>>

ScoreAllLeads ==
    \E arguments \in QualifiedOnlyArgs :
        Handle("score_all_leads", arguments, score_all_leads(s3, arguments))

GetPriorityList ==
    \E arguments \in CountArgs :
        Handle("get_priority_list", arguments, get_priority_list(s3, arguments))

TestMode == Handle("test", <<>>, main(s3))

NextTools == ScoreAllLeads \/ GetPriorityList \/ TestMode

SpecTools == InitTools /\ [][NextTools]_vars

-----------------------------------------------------------------------------
(* Properties of score_lead, stated on the contact and the returned dict *)

Called == result # NoResult

\* column k of contact c is present and holds v
Has(c, k, v) == k \in DOMAIN c /\ c[k] = v

\* column k of contact c is present and holds one of vs
HasOneOf(c, k, vs) == k \in DOMAIN c /\ c[k] \in vs

AbsentOrEmpty(c, k) == k \notin DOMAIN c \/ c[k] = ""

\* s has an element equal to e
Contains(s, e) == \E i \in 1..Len(s) : s[i] = e

IsCreditUnion(c) == Has(c, "Company_Type", "Credit Union")
HasAutoLending(c) == Has(c, "Has_Auto_Lending", "Yes")
InUnitedStates(c) == Has(c, "Country", "United States")
PreferredSize(c) == HasOneOf(c, "Company_Size", {"201-1000", "1000+"})
PreferredTitle(c) == HasOneOf(c, "Job_Title", ICP_CONFIG.preferred.titles)
PreferredSource(c) == HasOneOf(c, "Source", ICP_CONFIG.preferred.sources)

AllRequired(c) == IsCreditUnion(c) /\ HasAutoLending(c) /\ InUnitedStates(c)
AllPreferred(c) == PreferredSize(c) /\ PreferredTitle(c) /\ PreferredSource(c)
NonePreferred(c) == ~PreferredSize(c) /\ ~PreferredTitle(c) /\ ~PreferredSource(c)

Disqualified(r) == r.disqualified /\ r.score_pct = 0 /\ r.tier = "DISQUALIFIED"

\* the criteria a contact satisfies; the state criterion has an empty list
\* of preferred states, which every contact satisfies
Satisfied(c) ==
    {k \in DOMAIN SCORING :
        \/ k = "company_type" /\ IsCreditUnion(c)
        \/ k = "has_auto_lending" /\ HasAutoLending(c)
        \/ k = "company_size" /\ PreferredSize(c)
        \/ k = "title" /\ PreferredTitle(c)
        \/ k = "source" /\ PreferredSource(c)
        \/ k = "state"}

ResultKeys ==
    {"contact_id", "name", "company", "company_type", "title", "email",
     "phone", "state", "source", "created", "score", "score_pct", "tier",
     "priority", "reasons", "gaps", "disqualified"}

\* C1: a contact that is not a credit union, or whose Has_Auto_Lending is
\* not 'Yes', is disqualified with score_pct 0 and tier DISQUALIFIED,
\* whatever its other columns hold.
C1_RequiredFailureDisqualifies ==
    (Called /\ (~IsCreditUnion(contact) \/ ~HasAutoLending(contact)))
        => Disqualified(result)

\* a credit union in the United States with every preferred criterion met,
\* but without auto lending, has been scored and disqualified
C1_Witness ==
    /\ Called
    /\ IsCreditUnion(contact) /\ InUnitedStates(contact) /\ AllPreferred(contact)
    /\ Has(contact, "Has_Auto_Lending", "No")
    /\ Disqualified(result)

\* C2: a contact whose Country is not 'United States' is disqualified with
\* score_pct 0 and tier DISQUALIFIED, even when it is a credit union with
\* auto lending.
C2_CountryDisqualifies ==
    (Called /\ ~InUnitedStates(contact)) => Disqualified(result)

\* C3: a contact that meets all required criteria is not disqualified and
\* has no gaps; in every result, disqualified is true exactly when gaps is
\* non-empty.
C3_DisqualifiedIffGaps ==
    Called =>
        /\ AllRequired(contact) => (~result.disqualified /\ result.gaps = <<>>)
        /\ result.disqualified <=> (result.gaps # <<>>)

\* a contact meeting all required criteria has been scored
C3_Witness ==
    Called /\ AllRequired(contact) /\ ~result.disqualified /\ result.gaps = <<>>

\* C4 (as claimed): the score field of every disqualified result is 0.
C4_DisqualifiedScoreZero ==
    (Called /\ result.disqualified) => result.score = 0

\* C4 (amended): in every disqualified result score_pct is 0, while score is
\* still the sum of the weights of the criteria the contact satisfied.
C4_DisqualifiedKeepsScore ==
    (Called /\ result.disqualified) =>
        /\ result.score_pct = 0
        /\ result.score = SumValues(SCORING, Satisfied(contact))
        /\ result.score >= SCORING.state

\* a bank with auto lending and every preferred criterion: disqualified,
\* score 65
C4_Witness ==
    /\ Called /\ result.disqualified
    /\ ~IsCreditUnion(contact) /\ HasAutoLending(contact) /\ AllPreferred(contact)
    /\ result.score = 65 /\ result.score_pct = 0

\* C5: a contact that meets all required and all preferred criteria, with
\* any State, gets score 100, score_pct 100.0, tier A and is not
\* disqualified.
C5_PerfectLead ==
    (Called /\ AllRequired(contact) /\ AllPreferred(contact)) =>
        /\ result.score = 100
        /\ result.score_pct = 1000
        /\ result.tier = "A - Excellent"
        /\ ~result.disqualified

\* such a contact, with no State column, has been scored
C5_Witness ==
    /\ Called /\ AllRequired(contact) /\ AllPreferred(contact)
    /\ "State" \notin DOMAIN contact
    /\ result.score = 100

\* C6 (as claimed): a contact that meets all required criteria and none of
\* the preferred criteria gets score 70, score_pct 70.0 and tier C.
C6_RequiredOnlySeventy ==
    (Called /\ AllRequired(contact) /\ NonePreferred(contact)) =>
        /\ result.score = 70
        /\ result.score_pct = 700
        /\ result.tier = "C - Qualified"

\* C6 (amended): such a contact gets score 75 (35+35 and the 5 of the state
\* criterion, which no contact can fail), score_pct 75.0 and tier C.
C6_RequiredOnlySeventyFive ==
    (Called /\ AllRequired(contact) /\ NonePreferred(contact)) =>
        /\ result.score = 75
        /\ result.score_pct = 750
        /\ result.tier = "C - Qualified"

\* a contact meeting the required criteria, with size, title and source
\* outside the preferred lists, has been scored
C6_Witness ==
    /\ Called /\ AllRequired(contact)
    /\ Has(contact, "Company_Size", "51-200")
    /\ Has(contact, "Job_Title", "Controller")
    /\ Has(contact, "Source", "Cold Outreach")
    /\ result.tier = "C - Qualified"

\* C7: for a result that is not disqualified the tier follows score_pct
\* with inclusive lower bounds taken from the highest down: A from 90,
\* B from 80 to below 90, C from 70 to below 80, D below 70.
C7_TierThresholds ==
    (Called /\ ~result.disqualified) =>
        /\ result.score_pct >= 900 <=> result.tier = "A - Excellent"
        /\ (result.score_pct >= 800 /\ result.score_pct < 900)
               <=> result.tier = "B - Strong"
        /\ (result.score_pct >= 700 /\ result.score_pct < 800)
               <=> result.tier = "C - Qualified"
        /\ result.score_pct < 700 <=> result.tier = "D - Weak"

\* leads at exactly 90.0 and at exactly 80.0 are scored: A and B
C7_Witness ==
    /\ Called /\ ~result.disqualified
    /\ \/ result.score_pct = 900 /\ result.tier = "A - Excellent"
       \/ result.score_pct = 800 /\ result.tier = "B - Strong"

\* C8: max_score is the sum of all weights, 100, for every contact; the raw
\* score lies in 0..max_score and is the sum of the weights of exactly the
\* criteria the contact satisfied.
C8_ScoreIsSumOfEarnedWeights ==
    Called =>
        /\ frames[1].max_score = 100
        /\ frames[1].max_score =
              SCORING.company_type + SCORING.has_auto_lending
              + SCORING.company_size + SCORING.title + SCORING.source
              + SCORING.state
        /\ result.score >= 0 /\ result.score <= frames[1].max_score
        /\ result.score = SumValues(SCORING, Satisfied(contact))

\* a lead that earns the source weight among others has been scored
C8_Witness ==
    /\ Called /\ PreferredSource(contact) /\ ~PreferredTitle(contact)
    /\ IsCreditUnion(contact)
    /\ result.score > 0 /\ result.score < 100

\* C9 (as claimed): score_lead returns a complete result for a contact with
\* any columns absent or empty, and an absent or empty column never
\* satisfies its criterion.
C9_AbsentNeverSatisfies ==
    Called =>
        /\ DOMAIN result = ResultKeys
        /\ AbsentOrEmpty(contact, "Company_Type") =>
              result.disqualified /\ Contains(result.gaps, "x NOT A CREDIT UNION: ")
        /\ AbsentOrEmpty(contact, "Has_Auto_Lending") =>
              result.disqualified /\ Contains(result.gaps, "x NO AUTO LENDING BUSINESS")
        /\ AbsentOrEmpty(contact, "Company_Size") =>
              Contains(result.reasons, "* Size:  employees")
        /\ AbsentOrEmpty(contact, "Job_Title") =>
              Contains(result.reasons, "* Title: ")
        /\ AbsentOrEmpty(contact, "Source") =>
              Contains(result.reasons, "* Source: ")
        /\ AbsentOrEmpty(contact, "State") =>
              ~Contains(result.reasons, "+ Location: ")

\* C9 (amended): score_lead returns a complete result for a contact with
\* any columns absent or empty; an absent or empty Company_Type,
\* Has_Auto_Lending, Company_Size, Job_Title or Source does not satisfy its
\* criterion (the first two disqualify), while an absent State still earns
\* the state weight.
C9_AbsentReadAsEmpty ==
    Called =>
        /\ DOMAIN result = ResultKeys
        /\ AbsentOrEmpty(contact, "Company_Type") =>
              result.disqualified /\ Contains(result.gaps, "x NOT A CREDIT UNION: ")
        /\ AbsentOrEmpty(contact, "Has_Auto_Lending") =>
              result.disqualified /\ Contains(result.gaps, "x NO AUTO LENDING BUSINESS")
        /\ AbsentOrEmpty(contact, "Company_Size") =>
              Contains(result.reasons, "* Size:  employees")
        /\ AbsentOrEmpty(contact, "Job_Title") =>
              Contains(result.reasons, "* Title: ")
        /\ AbsentOrEmpty(contact, "Source") =>
              Contains(result.reasons, "* Source: ")
        /\ AbsentOrEmpty(contact, "State") =>
              Contains(result.reasons, "+ Location: ")
        /\ result.score = SumValues(SCORING, Satisfied(contact))

\* the contact with no column at all has been scored: disqualified, with
\* the state weight as its score
C9_Witness ==
    /\ Called /\ DOMAIN contact = {}
    /\ result.disqualified /\ result.score = 5
    /\ result.contact_id = None

\* C10: score_lead is deterministic and stateless: however the invocations
\* of the callers are sequenced or interleaved, two completed invocations on
\* equal contacts have returned equal results.
C10_EqualContactsEqualResults ==
    \A i, j \in Callers :
        (pc[i] = "done" /\ pc[j] = "done" /\ frames[i].contact = frames[j].contact)
            => returned[i] = returned[j]

\* both callers have completed a call on the same contact, one of them
\* after an earlier call of its own
C10_Witness ==
    /\ pc[1] = "done" /\ pc[2] = "done"
    /\ ncalls = 3
    /\ frames[1].contact = frames[2].contact
    /\ returned[1] = returned[2] /\ returned[1] # NoResult

\* the value score_lead reads from column k: the empty string when absent
Val(c, k) == IF k \in DOMAIN c THEN c[k] ELSE ""

\* the gaps of a contact, as its Company_Type and Has_Auto_Lending alone
\* determine them
RequiredGaps(c) ==
    (IF IsCreditUnion(c) THEN <<>>
     ELSE <<"x NOT A CREDIT UNION: " \o Val(c, "Company_Type")>>)
    \o (IF HasAutoLending(c) THEN <<>> ELSE <<"x NO AUTO LENDING BUSINESS">>)

\* C11: a preferred criterion never disqualifies: a company size, title or
\* source outside the preferred list puts a neutral entry in reasons and
\* nothing in gaps; gaps and disqualified are determined by Company_Type and
\* Has_Auto_Lending alone, whatever Company_Size, Job_Title, Source and
\* State hold.
C11_PreferredNeverDisqualifies ==
    Called =>
        /\ ~PreferredSize(contact) =>
              Contains(result.reasons,
                       "* Size: " \o Val(contact, "Company_Size") \o " employees")
        /\ ~PreferredTitle(contact) =>
              Contains(result.reasons, "* Title: " \o Val(contact, "Job_Title"))
        /\ ~PreferredSource(contact) =>
              Contains(result.reasons, "* Source: " \o Val(contact, "Source"))
        /\ result.gaps = RequiredGaps(contact)
        /\ result.disqualified <=> ~(IsCreditUnion(contact) /\ HasAutoLending(contact))

\* a credit union with auto lending that fails every preferred criterion it
\* can fail has been scored and is not disqualified
C11_Witness ==
    /\ Called /\ IsCreditUnion(contact) /\ HasAutoLending(contact)
    /\ NonePreferred(contact)
    /\ ~result.disqualified /\ result.gaps = <<>>
    /\ Contains(result.reasons, "* Title: Controller")

\* the values a column can hold in the input domain, "" when it is absent
ColumnVals(k) == {IF r[k] = Absent THEN "" ELSE r[k] : r \in RowSet}

\* the entries each criterion can put in reasons or gaps
EntriesOf ==
    [company_type |->
        {"+ Perfect fit: " \o v : v \in ColumnVals("Company_Type")}
        \cup {"x NOT A CREDIT UNION: " \o v : v \in ColumnVals("Company_Type")},
     has_auto_lending |->
        {"+ Has indirect auto lending", "x NO AUTO LENDING BUSINESS"},
     company_size |->
        {"+ Good size: " \o v \o " employees" : v \in ColumnVals("Company_Size")}
        \cup {"* Size: " \o v \o " employees" : v \in ColumnVals("Company_Size")},
     title |->
        {"+ Decision maker: " \o v : v \in ColumnVals("Job_Title")}
        \cup {"* Title: " \o v : v \in ColumnVals("Job_Title")},
     source |->
        {"+ High-intent: " \o v : v \in ColumnVals("Source")}
        \cup {"* Source: " \o v : v \in ColumnVals("Source")},
     state |-> {"+ Location: " \o v : v \in ColumnVals("State")}]

\* the declared order of the criteria: required first, then preferred
DeclaredOrder ==
    <<"company_type", "has_auto_lending", "company_size", "title", "source", "state">>

\* the position in DeclaredOrder of the criterion that entry e belongs to
Rank(e) == CHOOSE n \in 1..Len(DeclaredOrder) : e \in EntriesOf[DeclaredOrder[n]]

\* every entry of s belongs to a criterion, and the entries follow the
\* declared order of their criteria, one entry per criterion at most
InDeclaredOrder(s) ==
    /\ \A i \in 1..Len(s) : \E k \in DOMAIN EntriesOf : s[i] \in EntriesOf[k]
    /\ \A i, j \in 1..Len(s) : i < j => Rank(s[i]) < Rank(s[j])

\* C12: the entries of reasons and of gaps are in the declared order of
\* their criteria (company type, auto lending, company size, title, source,
\* state), whatever the contact holds.
C12_EntriesInDeclaredOrder ==
    Called => InDeclaredOrder(result.reasons) /\ InDeclaredOrder(result.gaps)

\* a contact with an entry of all six criteria in reasons, the preferred
\* ones partly met and partly not, has been scored
C12_Witness ==
    /\ Called /\ Len(result.reasons) = 6
    /\ PreferredTitle(contact) /\ ~PreferredSize(contact)
    /\ result.reasons[1] = "+ Perfect fit: Credit Union"
    /\ result.reasons[6] = "+ Location: CA"

\* C17: with the empty preferred states list every contact earns the 5
\* state points, so a result that is not disqualified has score >= 75 and
\* score_pct >= 75.0, and no result has tier 'D - Weak'.
C17_StateAlwaysEarned ==
    Called =>
        /\ Contains(result.reasons, "+ Location: " \o Val(contact, "State"))
        /\ result.score >= 5
        /\ ~result.disqualified => (result.score >= 75 /\ result.score_pct >= 750)
        /\ result.tier # "D - Weak"

\* a lead with only the required criteria and no State column has been
\* scored at exactly 75
C17_Witness ==
    /\ Called /\ ~result.disqualified
    /\ "State" \notin DOMAIN contact
    /\ ~PreferredSize(contact) /\ ~PreferredTitle(contact) /\ ~PreferredSource(contact)
    /\ result.score = 75 /\ result.score_pct = 750

-----------------------------------------------------------------------------
(* Properties of the tools, stated on the bucket, the request, what the     *)
(* handler held at its end and the response                                 *)

Handled == request # NoRequest

\* the handler got its contacts
Loaded == Handled /\ handler.error = Nothing

\* the contacts the handler loaded
LoadedContacts == The(handler.contacts)

\* the handler selects the qualified leads only
SelectsQualified ==
    \/ request.name \in {"get_priority_list", "test"}
    \/ /\ request.name = "score_all_leads"
       /\ "qualified_only" \in DOMAIN request.arguments => request.arguments.qualified_only

Bijections(n) == {p \in [1..n -> 1..n] : \A i, j \in 1..n : i # j => p[i] # p[j]}

\* out is in rearranged by descending score_pct, leads with equal score_pct
\* in the order they have in in
IsStableRanking(in, out) ==
    /\ Len(out) = Len(in)
    /\ \E p \in Bijections(Len(in)) :
          /\ \A k \in 1..Len(out) : out[k] = in[p[k]]
          /\ \A k, l \in 1..Len(out) :
                k < l => \/ out[k].score_pct > out[l].score_pct
                         \/ out[k].score_pct = out[l].score_pct /\ p[k] < p[l]

\* C13: the ranked list of score_all_leads, get_priority_list and test mode
\* is a permutation of the list that was sorted, in descending score_pct,
\* and leads with equal score_pct keep the order of the contact file.
C13_RankingStableDescending ==
    Loaded => IsStableRanking(handler.selected, handler.scored)

\* two different leads at 75.0 followed by one at 100.0 have been ranked:
\* the 100.0 first, the two others in file order
C13_Witness ==
    /\ Loaded /\ Len(handler.scored) = 3
    /\ handler.selected[1].contact_id = "CONT10001"
    /\ handler.selected[2].contact_id = "CONT10002"
    /\ handler.selected[3].score_pct = 1000
    /\ handler.scored[1].score_pct = 1000
    /\ handler.scored[2].contact_id = "CONT10001"
    /\ handler.scored[3].contact_id = "CONT10002"

\* the count a get_priority_list request asks for, when it is an integer
\* that is not negative: the argument is in halves, 10 when absent
AskedCount ==
    IF "count" \in DOMAIN request.arguments
    THEN request.arguments.count \div 2 ELSE 10

CountIsNatural ==
    "count" \in DOMAIN request.arguments =>
        (request.arguments.count >= 0 /\ request.arguments.count % 2 = 0)

\* C14: for a count n >= 0 get_priority_list lists exactly the first
\* min(n, number of qualified leads) of the ranked qualified leads: none
\* for n = 0, all of them for n beyond their number.
C14_TopCount ==
    (Loaded /\ request.name = "get_priority_list" /\ CountIsNatural) =>
        LET n == AskedCount
            ranked == handler.scored
            listed == response[1].text.leads
        IN /\ Len(response) = 1
           /\ Len(listed) = (IF n < Len(ranked) THEN n ELSE Len(ranked))
           /\ \A k \in 1..Len(listed) : listed[k] = ranked[k]
           /\ n = 0 => listed = <<>>
           /\ n >= Len(ranked) => listed = ranked

\* three qualified leads were ranked and a count of 2 listed the first two
C14_Witness ==
    /\ Loaded /\ request.name = "get_priority_list"
    /\ request.arguments = [count |-> 4]
    /\ Len(handler.scored) = 3
    /\ Len(response[1].text.leads) = 2
    /\ response[1].text.leads[1].score_pct = 1000

\* how many positions of s hold an element with property P
CountOf(s, P(_)) == Cardinality({i \in 1..Len(s) : P(s[i])})

\* C15: the qualified selection (get_priority_list, score_all_leads with
\* qualified_only true or absent, test mode) has exactly one entry for each
\* loaded contact whose score_lead result is not disqualified, and none for
\* a disqualified contact.
C15_QualifiedSelection ==
    (Loaded /\ SelectsQualified) =>
        /\ \A k \in 1..Len(handler.scored) : ~handler.scored[k].disqualified
        /\ Len(handler.scored) =
              CountOf(LoadedContacts, LAMBDA c : ~score_lead(c).disqualified)
        /\ \A c \in ToolContacts :
              ~score_lead(c).disqualified =>
                  CountOf(handler.scored, LAMBDA x : x.contact_id = c.Contact_ID)
                    = CountOf(LoadedContacts, LAMBDA d : d = c)

\* a file with a disqualified contact between two qualified ones has been
\* loaded with qualified_only absent, and two leads were selected
C15_Witness ==
    /\ Loaded /\ request.name = "score_all_leads" /\ request.arguments = <<>>
    /\ Len(LoadedContacts) = 3
    /\ ~IsCreditUnion(LoadedContacts[2])
    /\ Len(handler.scored) = 2

\* the error read_contacts_from_s3 has to give for the bucket, if any
NoObjects == s3.Contents = <<>>

ReadFails == s3.fault.at = "list_objects_v2" \/ NoObjects \/ s3.fault.at = "get_object"

\* C16: read_contacts_from_s3 returns a pair with exactly one side set:
\* (contacts, None), or (None, message) when no object is under the prefix
\* or an exception occurs; on an error score_all_leads and
\* get_priority_list return exactly one text item carrying the error and
\* score no contact.
C16_ReadErrorIsReported ==
    Handled =>
        /\ (handler.contacts = Nothing) # (handler.error = Nothing)
        /\ ReadFails <=> (handler.contacts = Nothing)
        /\ (NoObjects /\ s3.fault.at # "list_objects_v2") =>
              handler.error = Just("No contact data found in S3")
        /\ (handler.error # Nothing /\ request.name # "test") =>
              /\ Len(response) = 1
              /\ response[1].type = "text"
              /\ response[1].text = [kind |-> "error", text |-> "X " \o The(handler.error)]
              /\ handler.score_lead_calls = 0
              /\ handler.scored = <<>>

\* get_priority_list was asked while reading the latest file raised
C16_Witness ==
    /\ Handled /\ request.name = "get_priority_list"
    /\ s3.fault.at = "get_object" /\ Len(s3.Contents) = 2
    /\ handler.contacts = Nothing
    /\ response = <<TextContent([kind |-> "error",
                                 text |-> "X Error reading contacts: AccessDenied"])>>

\* C18: in the output of score_all_leads, 'Qualified' is the number of
\* loaded contacts whose result is not disqualified and 'Total Analyzed' is
\* the number of loaded contacts, for both values of qualified_only.
C18_QualifiedCount ==
    (Loaded /\ request.name = "score_all_leads") =>
        /\ response[1].text.total_analyzed = Len(LoadedContacts)
        /\ response[1].text.qualified =
              CountOf(LoadedContacts, LAMBDA c : ~score_lead(c).disqualified)

====
